---- MODULE Spec2Model ----
(***************************************************************************)
(* Model of DynamicPlanAndSolveAgent (src/4_3-dynamicPlanAndSolve.py):     *)
(* the plan / execute / evaluate / retry / replan control loop of run(),   *)
(* together with Planner.plan, Evaluator.evaluate, _execute_step and       *)
(* _generate_plan, against a Reasoning Engine (BaseAgent.think) whose      *)
(* replies are chosen nondeterministically.                                *)
(*                                                                         *)
(* run() blocks on every engine call, so one action of the model is the    *)
(* code of run() between two engine replies:                               *)
(*   RunStart       lines 213-218, up to the Planner's engine call         *)
(*   PlanInitial    the reply of that call, lines 218-232                  *)
(*   ExecuteStep    the reply of _execute_step's call, lines 232-239       *)
(*   Evaluate       the reply of the Evaluator's call, lines 239-268 and   *)
(*                  the loop test 225-232 or the return 275-281            *)
(*   Replan         the reply of the replanning call, lines 268-273 and    *)
(*                  the loop test 225-232                                  *)
(***************************************************************************)
EXTENDS Integers, Sequences, FiniteSets, TLC

\* ------------------------------------------------------------------------
\* Program constants
\* ------------------------------------------------------------------------
MAX_REPLANS == 3
MAX_RETRIES == 2

\* ------------------------------------------------------------------------
\* Bounds of the model
\* ------------------------------------------------------------------------
\* longest plan the engine proposes
MaxPlanLen == 2

\* ------------------------------------------------------------------------
\* Texts
\* ------------------------------------------------------------------------
\* the strings run() returns on its own account
MsgNoInitialPlan == "cannot generate initial plan"
MsgReplanExhausted == "max replans reached, task failed"
MsgReplanFailed == "replanning failed, no new plan"
MsgNothingCompleted == "nothing completed"

\* an element of a plan: the value of one element of the parsed list literal.
\* str is TRUE when the element is a Python str.
StrItem(s) == [str |-> TRUE, val |-> s]
IntItem(s) == [str |-> FALSE, val |-> s]

\* value of the locals of run() before their first assignment
NoStep == [str |-> FALSE, val |-> "unset"]

\* the engine's plan of n steps: the description of a step names its
\* position, so the steps of one plan differ in text
StepText(i) == CASE i = 1 -> "s1" [] i = 2 -> "s2" [] i = 3 -> "s3" [] i = 4 -> "s4" [] OTHER -> "sN"
PlanOf(n) == [i \in 1..n |-> StrItem(StepText(i))]

\* the string lists the engine proposes as plans, the empty list included
PlanLists == {PlanOf(n) : n \in 0..MaxPlanLen}

\* ------------------------------------------------------------------------
\* Reasoning Engine replies (BaseAgent.think): a text, or None on any error
\* ------------------------------------------------------------------------
Some(t) == [avail |-> TRUE, text |-> t]
None(t) == [avail |-> FALSE, text |-> t]

\* think(...) or dflt: None and the empty text are both falsy
OrElse(reply, empty, dflt) ==
    IF reply.avail /\ reply.text # empty THEN reply.text ELSE dflt

\* ---- Planner reply texts: sequences of tokens; fence_py is the opening
\* fence of a python block, fence a plain fence
Tok(k, v) == [kind |-> k, items |-> v]
FencePy == Tok("fence_py", <<>>)
Fence == Tok("fence", <<>>)
Ws == Tok("ws", <<>>)
Prose == Tok("prose", <<>>)
ListLit(items) == Tok("list", items)
DictLit == Tok("dict", <<>>)
StrLit == Tok("str", <<StrItem("s1")>>)
Garbage == Tok("garbage", <<>>)

PlannerTexts ==
    {<<>>, <<Prose>>, <<Fence, ListLit(<<StrItem("s1")>>), Fence>>,
     <<FencePy, Garbage, Fence>>, <<FencePy, Fence>>,
     <<FencePy, DictLit, Fence>>, <<FencePy, StrLit, Fence>>,
     <<FencePy, ListLit(<<IntItem("7")>>), Fence>>,
     <<FencePy, ListLit(<<StrItem("s1")>>), ListLit(<<StrItem("s2")>>), Fence>>}
    \cup {<<FencePy, ListLit(p), Fence>> : p \in PlanLists}
    \cup {<<Prose, FencePy, Ws, ListLit(p), Ws, Fence, Prose>> : p \in {q \in PlanLists : Len(q) = 1}}
    \cup {<<FencePy, ListLit(p)>> : p \in {q \in PlanLists : Len(q) = 1}}

PlannerReplies == {None(<<>>)} \cup {Some(t) : t \in PlannerTexts}

\* ---- Evaluator reply texts: sequences of words
EvalTexts ==
    {<<>>, <<"SUCCESS">>, <<"success">>, <<"FAILURE_RETRY">>, <<"failure_retry">>,
     <<"FAILURE_REPLAN">>, <<"unclear">>, <<"unsuccessful">>,
     <<"FAILURE_RETRY", "SUCCESS">>, <<"FAILURE_REPLAN", "Success">>,
     <<"FAILURE_REPLAN", "FAILURE_RETRY">>}

EvaluatorReplies == {None(<<>>)} \cup {Some(t) : t \in EvalTexts}

\* ---- Executor reply texts
ExecutorTexts == {"", "r1"}

ExecutorReplies == {None("")} \cup {Some(t) : t \in ExecutorTexts}

\* ---- replies for one call of Planner.plan or Evaluator.evaluate on its
\* own: every text of at most MaxTokens tokens, of at most MaxWords words
MaxTokens == 3
MaxWords == 2

SeqsUpTo(S, n) == UNION {[1..k -> S] : k \in 0..n}

PlannerTokens ==
    {FencePy, Fence, Ws, Prose, Garbage, DictLit, StrLit, ListLit(<<IntItem("7")>>)}
    \cup {ListLit(p) : p \in PlanLists}

EvalWords ==
    {"SUCCESS", "success", "Success", "unsuccessful", "FAILURE_RETRY",
     "failure_retry", "FAILURE_REPLAN", "unclear"}

CallPlannerReplies ==
    PlannerReplies \cup {Some(t) : t \in SeqsUpTo(PlannerTokens, MaxTokens)}

CallEvaluatorReplies ==
    EvaluatorReplies \cup {Some(t) : t \in SeqsUpTo(EvalWords, MaxWords)}

\* ---- replies of a stub engine: one plan, one result, the three verdicts
StubPlannerReplies == {Some(<<FencePy, ListLit(PlanOf(1)), Fence>>), Some(<<Prose>>)}
StubExecutorReplies == {Some("r1")}
StubEvaluatorReplies ==
    {Some(<<"SUCCESS">>), Some(<<"FAILURE_RETRY">>), Some(<<"FAILURE_REPLAN">>)}

\* ------------------------------------------------------------------------
\* Planner.plan: parsing of the engine's reply (lines 129-144)
\* ------------------------------------------------------------------------
MinOf(S) == CHOOSE x \in S : \A y \in S : x <= y
MaxOf(S) == CHOOSE x \in S : \A y \in S : x >= y

Positions(text, kinds) == {i \in 1..Len(text) : text[i].kind \in kinds}

\* split(fence_py)[1] followed by split(fence)[0]: the tokens after the first
\* python fence up to the next fence of either kind (the text of a python
\* fence starts with the text of a plain fence); ok is FALSE when
\* split(...)[1] raises IndexError
FencedBlock(text) ==
    LET opens == Positions(text, {"fence_py"})
    IN  IF opens = {} THEN [ok |-> FALSE, val |-> <<>>]
        ELSE LET first == MinOf(opens)
                 closes == {j \in Positions(text, {"fence_py", "fence"}) : j > first}
                 last == IF closes = {} THEN Len(text) ELSE MinOf(closes) - 1
             IN  [ok |-> TRUE, val |-> SubSeq(text, first + 1, last)]

\* str.strip(): leading and trailing whitespace removed
Strip(text) ==
    LET solid == {i \in 1..Len(text) : text[i].kind # "ws"}
    IN  IF solid = {} THEN <<>> ELSE SubSeq(text, MinOf(solid), MaxOf(solid))

\* ast.literal_eval: the value of a text that is one Python literal; ok is
\* FALSE when it raises ValueError or SyntaxError
LiteralEval(text) ==
    IF Len(text) = 1 /\ text[1].kind \in {"list", "dict", "str"}
    THEN [ok |-> TRUE, val |-> text[1]]
    ELSE [ok |-> FALSE, val |-> Garbage]

\* Planner.plan, from the engine's reply to the returned list
Planner_plan(reply) ==
    LET response_text == OrElse(reply, <<>>, <<>>)
        block == FencedBlock(response_text)
        plan_str == Strip(block.val)
        lit == LiteralEval(plan_str)
    IN  IF ~block.ok THEN <<>>
        ELSE IF ~lit.ok THEN <<>>
        ELSE IF lit.val.kind = "list" THEN lit.val.items ELSE <<>>

\* ------------------------------------------------------------------------
\* Evaluator.evaluate: classification of the engine's reply (lines 167-175)
\* ------------------------------------------------------------------------
\* str.upper() of one word
Upper(w) ==
    CASE w \in {"success", "Success"} -> "SUCCESS"
      [] w = "failure_retry" -> "FAILURE_RETRY"
      [] w = "unsuccessful" -> "UNSUCCESSFUL"
      [] w = "unclear" -> "UNCLEAR"
      [] OTHER -> w

\* needle in word, for upper-case words
WordHas(word, needle) ==
    word = needle \/ (word = "UNSUCCESSFUL" /\ needle = "SUCCESS")

\* needle in text.upper()
InUpper(needle, text) == \E i \in 1..Len(text) : WordHas(Upper(text[i]), needle)

\* variant of lines 170-172: FAILURE_RETRY is looked for first
Evaluator_evaluate_retryFirst(reply) ==
    LET response_text == OrElse(reply, <<>>, <<"FAILURE_REPLAN">>)
    IN  IF InUpper("FAILURE_RETRY", response_text) THEN "FAILURE_RETRY"
        ELSE IF InUpper("SUCCESS", response_text) THEN "SUCCESS"
        ELSE "FAILURE_REPLAN"

\* variant of line 167: no reply of the engine counts as SUCCESS
Evaluator_evaluate_successDefault(reply) ==
    LET response_text == OrElse(reply, <<>>, <<"SUCCESS">>)
    IN  IF InUpper("SUCCESS", response_text) THEN "SUCCESS"
        ELSE IF InUpper("FAILURE_RETRY", response_text) THEN "FAILURE_RETRY"
        ELSE "FAILURE_REPLAN"

\* Evaluator.evaluate, from the engine's reply to the verdict
Evaluator_evaluate(reply) ==
    LET response_text == OrElse(reply, <<>>, <<"FAILURE_REPLAN">>)
    IN  IF InUpper("SUCCESS", response_text) THEN "SUCCESS"
        ELSE IF InUpper("FAILURE_RETRY", response_text) THEN "FAILURE_RETRY"
        ELSE "FAILURE_REPLAN"

\* ------------------------------------------------------------------------
\* _execute_step: the result text (line 341)
\* ------------------------------------------------------------------------
ExecuteResult(reply) == OrElse(reply, "", "")

\* ------------------------------------------------------------------------
\* _generate_plan and the failure description (lines 265, 295-301)
\* ------------------------------------------------------------------------
\* the "none" marker, or the rendering of the history entries
HistoryStr(h) ==
    IF h # <<>> THEN [none |-> FALSE, entries |-> h]
    ELSE [none |-> TRUE, entries |-> <<>>]

NoFailure == [none |-> TRUE, step |-> NoStep, result |-> ""]

\* variant of line 265: the description leaves out the result of the step
FailureInfo_noResult(step, res) == [none |-> FALSE, step |-> step, result |-> ""]

\* line 265
FailureInfo(step, res) == [none |-> FALSE, step |-> step, result |-> res]

\* ------------------------------------------------------------------------
\* Decisions of run()
\* ------------------------------------------------------------------------
\* variant of line 243: the entry is put in front
AppendHistory_front(h, step, res) == <<[step |-> step, result |-> res]>> \o h

\* line 243
AppendHistory(h, step, res) == Append(h, [step |-> step, result |-> res])

\* variant of line 244: the cursor skips a step
Advance_two(idx) == idx + 2

\* line 244
Advance(idx) == idx + 1

\* variants of line 250: the bound is never reached, reached one verdict
\* early, reached one verdict late
RetriesExhausted_never(rc) == FALSE
RetriesExhausted_early(rc) == rc >= MAX_RETRIES
RetriesExhausted_late(rc) == rc > MAX_RETRIES + 1

\* line 250
RetriesExhausted(rc) == rc > MAX_RETRIES

\* variant of line 259: the counter moves by two
NextReplanCount_two(c) == c + 2

\* line 259
NextReplanCount(c) == c + 1

\* variant of line 260: the budget ends one replan early
ReplansExhausted_early(c) == c >= MAX_REPLANS

\* line 260
ReplansExhausted(c) == c > MAX_REPLANS

\* variant of lines 219 and 269: the plan is not tested
PlanMissing_never(p) == FALSE

\* lines 219 and 269
PlanMissing(p) == p = <<>>

\* line 225
LoopContinues(idx, p) == idx < Len(p)

\* variant of line 214: the history of the earlier run is kept
FreshHistory_keep(h) == h

\* line 214: self.history at the start of run(), h before it
FreshHistory(h) == <<>>

\* line 215: self.replan_count at the start of run(), c before it
FreshReplanCount(c) == 0

\* variant of line 245: the retries spent on a step are carried to the next
RetryAfterSuccess_keep(rc) == rc

\* line 245: the retry counter after a SUCCESS verdict, rc before it
RetryAfterSuccess(rc) == 0

\* variant of line 273: the retries spent before a replan are carried over
RetryAfterReplan_keep(rc) == rc

\* line 273: the retry counter once a new plan is installed, rc before it
RetryAfterReplan(rc) == 0

\* variants of line 276: the test is inverted, the first entry is returned
FinalAnswer_inverted(h) == IF h = <<>> THEN h[Len(h)].result ELSE MsgNothingCompleted
FinalAnswer_first(h) == IF h # <<>> THEN h[1].result ELSE MsgNothingCompleted

\* line 276
FinalAnswer(h) == IF h # <<>> THEN h[Len(h)].result ELSE MsgNothingCompleted

\* ------------------------------------------------------------------------
\* State
\* ------------------------------------------------------------------------
VARIABLES
    self_history,       \* self.history
    self_replan_count,  \* self.replan_count
    plan,               \* locals of run()
    step_index,
    retry_count,
    current_step,
    result,
    evaluation,
    failure_info,
    pc,                 \* engine call run() is blocked on, or idle / done
    ret,                \* value returned by run()
    outcome,            \* return statement taken: DONE_SUCCESS or DONE_FAILURE
    verdict,            \* value the last Evaluator.evaluate call returned
    planner_args,       \* arguments of the last Planner.plan call
    planner_calls,      \* calls of Planner.plan in this run
    replans_done,       \* calls of _generate_plan at line 268 in this run
    success_verdicts,   \* SUCCESS verdicts returned in this run
    executions,         \* calls of _execute_step per position of the active plan
    evaluations,        \* calls of Evaluator.evaluate per position of the active plan
    all_success,        \* no Evaluator.evaluate call of this run returned a failure
    engine,             \* the Reasoning Engine behind think(): "full", "stub" or "down"
    rerun,              \* this call of run() followed an earlier one on the instance
    call,               \* one call of Planner.plan or Evaluator.evaluate on its own
    other               \* locals of a second call of run() on the same instance

vars == <<self_history, self_replan_count, plan, step_index, retry_count,
          current_step, result, evaluation, failure_info, pc, ret, outcome,
          verdict, planner_args, planner_calls, replans_done,
          success_verdicts, executions, evaluations, all_success,
          engine, rerun, call, other>>

\* what the calls of one run leave alone
aux == <<engine, rerun, call, other>>

runState == <<self_history, self_replan_count>>
locals == <<plan, step_index, retry_count, current_step, result, evaluation, failure_info>>

\* no call yet at any position of the plan
NoCalls == [i \in 1..MaxPlanLen |-> 0]

\* most calls of _execute_step for one position of a plan, and most calls of
\* Planner.plan in one run: the guards that mention them keep the call
\* counters of the model finite and never block a call the code makes
MaxStepExecs == MAX_RETRIES + 1
MaxPlannerCalls == MAX_REPLANS + 1

\* replies think() can return to each caller: None only when the engine is
\* down (BaseAgent.think, lines 72-74), the replies of a small stub when the
\* agent was built on one
PlannerInputs ==
    CASE engine = "down" -> {None(<<>>)}
      [] engine = "stub" -> StubPlannerReplies
      [] OTHER -> PlannerReplies

ExecutorInputs ==
    CASE engine = "down" -> {None("")}
      [] engine = "stub" -> StubExecutorReplies
      [] OTHER -> ExecutorReplies

EvaluatorInputs ==
    CASE engine = "down" -> {None(<<>>)}
      [] engine = "stub" -> StubEvaluatorReplies
      [] OTHER -> EvaluatorReplies

\* no call of Planner.plan or Evaluator.evaluate on its own
NoCall == [fn |-> "none", pc |-> "off"]

\* the locals of a call of run() that has not started
IdleFrame ==
    [plan |-> <<>>, step_index |-> 0, retry_count |-> 0, current_step |-> NoStep,
     result |-> "", evaluation |-> "unset", failure_info |-> NoFailure,
     pc |-> "idle", ret |-> "unset", outcome |-> "unset", verdict |-> "unset",
     planner_args |-> [history |-> HistoryStr(<<>>), failure_info |-> NoFailure],
     planner_calls |-> 0, replans_done |-> 0, success_verdicts |-> 0,
     executions |-> NoCalls, evaluations |-> NoCalls, all_success |-> TRUE]

\* there is no second call of run()
NoFrame == [pc |-> "absent"]

\* __init__ (lines 190-196); run() has not been called
Constructed ==
    /\ self_history = <<>>
    /\ self_replan_count = 0
    /\ plan = <<>>
    /\ step_index = 0
    /\ retry_count = 0
    /\ current_step = NoStep
    /\ result = ""
    /\ evaluation = "unset"
    /\ failure_info = NoFailure
    /\ pc = "idle"
    /\ ret = "unset"
    /\ outcome = "unset"
    /\ verdict = "unset"
    /\ planner_args = [history |-> HistoryStr(<<>>), failure_info |-> NoFailure]
    /\ planner_calls = 0
    /\ replans_done = 0
    /\ success_verdicts = 0
    /\ executions = NoCalls
    /\ evaluations = NoCalls
    /\ all_success = TRUE

\* one agent on the full engine, one call of run() at a time
Init ==
    /\ Constructed
    /\ engine = "full"
    /\ rerun = FALSE
    /\ call = NoCall
    /\ other = NoFrame

\* return at lines 220, 262, 270
ReturnFailure(msg) ==
    /\ pc' = "done"
    /\ ret' = msg
    /\ outcome' = "DONE_FAILURE"

\* the loop test of line 225 with plan p, cursor idx and history h: the next
\* step is handed to _execute_step (lines 226-232), or run() returns the
\* final answer (lines 275-281)
LoopHead(p, idx, h, execs) ==
    IF LoopContinues(idx, p)
    THEN /\ current_step' = p[idx + 1]
         /\ executions' = [execs EXCEPT ![idx + 1] = @ + 1]
         /\ pc' = "executing"
         /\ UNCHANGED <<ret, outcome>>
    ELSE /\ pc' = "done"
         /\ ret' = FinalAnswer(h)
         /\ outcome' = "DONE_SUCCESS"
         /\ executions' = execs
         /\ UNCHANGED current_step

\* run(), lines 213-218: reset of the run state and the call of the Planner
\* through _generate_plan (lines 295-308) for the initial plan
StartRun ==
    /\ pc \in {"idle", "done"}
    /\ self_history' = FreshHistory(self_history)
    /\ self_replan_count' = FreshReplanCount(self_replan_count)
    /\ plan' = <<>>
    /\ step_index' = 0
    /\ retry_count' = 0
    /\ current_step' = NoStep
    /\ result' = ""
    /\ evaluation' = "unset"
    /\ failure_info' = NoFailure
    /\ ret' = "unset"
    /\ outcome' = "unset"
    /\ verdict' = "unset"
    /\ planner_args' = [history |-> HistoryStr(self_history'), failure_info |-> NoFailure]
    /\ planner_calls' = 1
    /\ replans_done' = 0
    /\ success_verdicts' = 0
    /\ executions' = NoCalls
    /\ evaluations' = NoCalls
    /\ all_success' = TRUE
    /\ pc' = "planning"

RunStart == StartRun /\ UNCHANGED aux

\* run(), lines 218-232: the initial plan arrives
PlanInitial ==
    /\ pc = "planning"
    /\ \E reply \in PlannerInputs :
         /\ plan' = Planner_plan(reply)
         /\ IF PlanMissing(plan')
            THEN /\ ReturnFailure(MsgNoInitialPlan)
                 /\ UNCHANGED <<step_index, retry_count, current_step, executions,
                                evaluations>>
            ELSE /\ step_index' = 0
                 /\ retry_count' = 0
                 /\ evaluations' = NoCalls
                 /\ LoopHead(plan', 0, self_history, NoCalls)
    /\ UNCHANGED <<runState, result, evaluation, failure_info, verdict, planner_args,
                   planner_calls, replans_done, success_verdicts, all_success>>
    /\ UNCHANGED aux

\* run(), lines 232-239: the result of the step arrives and is handed to the
\* Evaluator
ExecuteStep ==
    /\ pc = "executing"
    /\ executions[step_index + 1] <= MaxStepExecs
    /\ \E reply \in ExecutorInputs : result' = ExecuteResult(reply)
    /\ evaluations' = [evaluations EXCEPT ![step_index + 1] = @ + 1]
    /\ pc' = "evaluating"
    /\ UNCHANGED <<runState, plan, step_index, retry_count, current_step, evaluation,
                   failure_info, ret, outcome, verdict, planner_args, planner_calls,
                   replans_done, success_verdicts, executions, all_success>>
    /\ UNCHANGED aux

\* lines 242-246, then the loop test
OnSuccess ==
    /\ evaluation' = "SUCCESS"
    /\ self_history' = AppendHistory(self_history, current_step, result)
    /\ step_index' = Advance(step_index)
    /\ retry_count' = RetryAfterSuccess(retry_count)
    /\ LoopHead(plan, step_index', self_history', executions)
    /\ UNCHANGED <<self_replan_count, plan, failure_info, planner_args,
                   planner_calls, replans_done>>

\* variant of lines 248-255: a retry is also charged to the replan counter
OnRetry_replans ==
    /\ evaluation' = "FAILURE_RETRY"
    /\ retry_count' = retry_count + 1
    /\ self_replan_count' = self_replan_count + 1
    /\ LoopHead(plan, step_index, self_history, executions)
    /\ UNCHANGED <<self_history, plan, step_index, failure_info, planner_args,
                   planner_calls, replans_done>>

\* lines 248-255 when the step is tried again, then the loop test
OnRetry ==
    /\ evaluation' = "FAILURE_RETRY"
    /\ retry_count' = retry_count + 1
    /\ LoopHead(plan, step_index, self_history, executions)
    /\ UNCHANGED <<runState, plan, step_index, failure_info, planner_args,
                   planner_calls, replans_done>>

\* lines 258-268: rc is the retry counter on entry (incremented at line 249
\* when the verdict was escalated at line 252)
OnReplan(rc) ==
    /\ evaluation' = "FAILURE_REPLAN"
    /\ retry_count' = rc
    /\ self_replan_count' = NextReplanCount(self_replan_count)
    /\ IF ReplansExhausted(self_replan_count')
       THEN /\ ReturnFailure(MsgReplanExhausted)
            /\ UNCHANGED <<failure_info, planner_args, planner_calls, replans_done>>
       ELSE /\ failure_info' = FailureInfo(current_step, result)
            /\ planner_args' = [history |-> HistoryStr(self_history),
                                failure_info |-> failure_info']
            /\ planner_calls' = planner_calls + 1
            /\ replans_done' = replans_done + 1
            /\ pc' = "replanning"
            /\ UNCHANGED <<ret, outcome>>
    /\ UNCHANGED <<self_history, plan, step_index, current_step, executions>>

\* run(), lines 239-268: the verdict arrives
Evaluate ==
    /\ pc = "evaluating"
    /\ \E reply \in EvaluatorInputs :
         /\ verdict' = Evaluator_evaluate(reply)
         /\ success_verdicts' = success_verdicts + (IF verdict' = "SUCCESS" THEN 1 ELSE 0)
         /\ all_success' = (all_success /\ verdict' = "SUCCESS")
         /\ CASE verdict' = "SUCCESS" -> OnSuccess
              [] verdict' = "FAILURE_RETRY" ->
                    IF RetriesExhausted(retry_count + 1)
                    THEN OnReplan(retry_count + 1)
                    ELSE OnRetry
              [] OTHER -> OnReplan(retry_count)
    /\ UNCHANGED <<result, evaluations>>
    /\ UNCHANGED aux

\* run(), lines 268-273, then the loop test: the new plan arrives
Replan ==
    /\ pc = "replanning"
    /\ planner_calls <= MaxPlannerCalls
    /\ \E reply \in PlannerInputs :
         /\ plan' = Planner_plan(reply)
         /\ IF PlanMissing(plan')
            THEN /\ ReturnFailure(MsgReplanFailed)
                 /\ UNCHANGED <<step_index, retry_count, current_step, executions,
                                evaluations>>
            ELSE /\ step_index' = 0
                 /\ retry_count' = RetryAfterReplan(retry_count)
                 /\ evaluations' = NoCalls
                 /\ LoopHead(plan', 0, self_history, NoCalls)
    /\ UNCHANGED <<runState, result, evaluation, failure_info, verdict, planner_args,
                   planner_calls, replans_done, success_verdicts, all_success>>
    /\ UNCHANGED aux

Next ==
    \/ RunStart
    \/ PlanInitial
    \/ ExecuteStep
    \/ Evaluate
    \/ Replan

Spec == Init /\ [][Next]_vars

\* every engine call returns: run() is one thread blocked on one call
LiveSpec == Spec /\ WF_vars(PlanInitial) /\ WF_vars(ExecuteStep)
                 /\ WF_vars(Evaluate) /\ WF_vars(Replan)

\* ------------------------------------------------------------------------
\* Calls of run() one after the other on one instance, with the later ones
\* marked
\* ------------------------------------------------------------------------
\* the first call of run() on the instance
RunFirst == pc = "idle" /\ RunStart

\* run() is called again after an earlier call has returned
Rerun ==
    /\ pc = "done"
    /\ StartRun
    /\ rerun' = TRUE
    /\ UNCHANGED <<engine, call, other>>

RerunNext ==
    \/ RunFirst
    \/ Rerun
    \/ PlanInitial
    \/ ExecuteStep
    \/ Evaluate
    \/ Replan

RerunSpec == Init /\ [][RerunNext]_vars

\* ------------------------------------------------------------------------
\* Two calls of run() on one instance, interleaved where run() waits for
\* the engine: each call has its own locals, self.history and
\* self.replan_count belong to the instance (lines 195-196)
\* ------------------------------------------------------------------------
\* the locals of the call that is running
Frame ==
    [plan |-> plan, step_index |-> step_index, retry_count |-> retry_count,
     current_step |-> current_step, result |-> result, evaluation |-> evaluation,
     failure_info |-> failure_info, pc |-> pc, ret |-> ret, outcome |-> outcome,
     verdict |-> verdict, planner_args |-> planner_args,
     planner_calls |-> planner_calls, replans_done |-> replans_done,
     success_verdicts |-> success_verdicts, executions |-> executions,
     evaluations |-> evaluations, all_success |-> all_success]

\* the running call waits for the engine (or is idle or has returned) and
\* the other call goes on
Switch ==
    /\ other.pc # "absent"
    /\ other' = Frame
    /\ plan' = other.plan
    /\ step_index' = other.step_index
    /\ retry_count' = other.retry_count
    /\ current_step' = other.current_step
    /\ result' = other.result
    /\ evaluation' = other.evaluation
    /\ failure_info' = other.failure_info
    /\ pc' = other.pc
    /\ ret' = other.ret
    /\ outcome' = other.outcome
    /\ verdict' = other.verdict
    /\ planner_args' = other.planner_args
    /\ planner_calls' = other.planner_calls
    /\ replans_done' = other.replans_done
    /\ success_verdicts' = other.success_verdicts
    /\ executions' = other.executions
    /\ evaluations' = other.evaluations
    /\ all_success' = other.all_success
    /\ UNCHANGED <<runState, engine, rerun, call>>

\* one agent on the stub engine, two calls of run()
ConcInit ==
    /\ Constructed
    /\ engine = "stub"
    /\ rerun = FALSE
    /\ call = NoCall
    /\ other = IdleFrame

ConcNext == Next \/ Switch

ConcSpec == ConcInit /\ [][ConcNext]_vars

\* ------------------------------------------------------------------------
\* A run during which the engine goes down
\* ------------------------------------------------------------------------
\* from this call on every think() catches an exception and returns None
\* (BaseAgent.think, lines 72-74)
EngineDown ==
    /\ engine = "full"
    /\ pc \in {"planning", "executing", "evaluating", "replanning"}
    /\ engine' = "down"
    /\ UNCHANGED <<runState, locals, pc, ret, outcome, verdict, planner_args,
                   planner_calls, replans_done, success_verdicts, executions,
                   evaluations, all_success, rerun, call, other>>

OutageNext == Next \/ EngineDown

OutageSpec == Init /\ [][OutageNext]_vars

\* ------------------------------------------------------------------------
\* Planner.plan and Evaluator.evaluate called on their own with one reply
\* ------------------------------------------------------------------------
CallInit ==
    /\ Constructed
    /\ engine = "full"
    /\ rerun = FALSE
    /\ other = NoFrame
    /\ \/ \E r \in CallPlannerReplies :
             call = [fn |-> "plan", pc |-> "called", reply |-> r, out |-> <<>>]
       \/ \E r \in CallEvaluatorReplies :
             call = [fn |-> "evaluate", pc |-> "called", reply |-> r, out |-> <<>>]

\* Planner.plan returns (lines 129-144)
CallPlan ==
    /\ call.fn = "plan"
    /\ call.pc = "called"
    /\ call' = [call EXCEPT !.pc = "returned", !.out = Planner_plan(call.reply)]
    /\ UNCHANGED <<runState, locals, pc, ret, outcome, verdict, planner_args,
                   planner_calls, replans_done, success_verdicts, executions,
                   evaluations, all_success, engine, rerun, other>>

\* Evaluator.evaluate returns (lines 167-175)
CallEvaluate ==
    /\ call.fn = "evaluate"
    /\ call.pc = "called"
    /\ call' = [call EXCEPT !.pc = "returned", !.out = Evaluator_evaluate(call.reply)]
    /\ UNCHANGED <<runState, locals, pc, ret, outcome, verdict, planner_args,
                   planner_calls, replans_done, success_verdicts, executions,
                   evaluations, all_success, engine, rerun, other>>

CallNext == CallPlan \/ CallEvaluate

CallSpec == CallInit /\ [][CallNext]_vars

Running == pc \in {"planning", "executing", "evaluating", "replanning"}
InLoop == pc \in {"executing", "evaluating", "replanning"}

TypeOK ==
    /\ pc \in {"idle", "planning", "executing", "evaluating", "replanning", "done"}
    /\ outcome \in {"unset", "DONE_SUCCESS", "DONE_FAILURE"}
    /\ verdict \in {"unset", "SUCCESS", "FAILURE_RETRY", "FAILURE_REPLAN"}
    /\ evaluation \in {"unset", "SUCCESS", "FAILURE_RETRY", "FAILURE_REPLAN"}
    /\ step_index \in 0..MaxPlanLen
    /\ Len(plan) <= MaxPlanLen

\* ------------------------------------------------------------------------
\* Transitions named by the properties
\* ------------------------------------------------------------------------
\* the step is the handling of a verdict
VerdictStep == pc = "evaluating" /\ pc' # "evaluating"

\* a FAILURE_RETRY verdict that is escalated at line 252
EscalatedStep ==
    VerdictStep /\ verdict' = "FAILURE_RETRY" /\ evaluation' = "FAILURE_REPLAN"

\* a FAILURE_REPLAN transition: the verdict itself, or the escalated one
ReplanStep ==
    VerdictStep /\ (verdict' = "FAILURE_REPLAN" \/ EscalatedStep)

\* the last verdict handled was escalated
Escalated ==
    /\ pc \in {"replanning", "done"}
    /\ verdict = "FAILURE_RETRY"
    /\ evaluation = "FAILURE_REPLAN"

MinNat(a, b) == IF a <= b THEN a ELSE b

\* ------------------------------------------------------------------------
\* C1
\* ------------------------------------------------------------------------
\* C1: every call of run() returns: from every state in which run() waits for
\* an engine reply, a state in which run() has returned is reached, whatever
\* the verdicts and the plans are
RunTerminates == [](Running => <>(pc = "done"))

\* a run that used up the retries of a step and the replans of the run
C1_Witness ==
    /\ pc = "done"
    /\ outcome = "DONE_FAILURE"
    /\ retry_count = MAX_RETRIES + 1
    /\ self_replan_count = MAX_REPLANS + 1

\* ------------------------------------------------------------------------
\* C2
\* ------------------------------------------------------------------------
\* the replan counter never decreases within a run and changes by exactly 1
\* on a FAILURE_REPLAN transition and on no other transition
ReplanCountSteps ==
    [][Running =>
        /\ self_replan_count' >= self_replan_count
        /\ (ReplanStep => self_replan_count' = self_replan_count + 1)
        /\ (~ReplanStep => self_replan_count' = self_replan_count)]_vars

\* C2 as stated: the counter never decreases, moves by exactly 1 on every
\* FAILURE_REPLAN transition only, and the run is in DONE_FAILURE exactly
\* when the counter exceeds MAX_REPLANS
C2_Original ==
    /\ ReplanCountSteps
    /\ [](outcome = "DONE_FAILURE" <=> self_replan_count > MAX_REPLANS)

\* C2 amended: the counter never decreases, moves by exactly 1 on every
\* FAILURE_REPLAN transition only, the run returns the budget-exhausted
\* failure exactly when the counter exceeds MAX_REPLANS, and every other
\* DONE_FAILURE is an empty plan of the Planner
C2_ReplanCounter ==
    /\ ReplanCountSteps
    /\ [](/\ self_replan_count <= MAX_REPLANS + 1
          /\ (ret = MsgReplanExhausted <=> self_replan_count > MAX_REPLANS)
          /\ (ret = MsgReplanExhausted => pc = "done" /\ outcome = "DONE_FAILURE")
          /\ (outcome = "DONE_FAILURE" /\ self_replan_count <= MAX_REPLANS
                => plan = <<>> /\ ret \in {MsgNoInitialPlan, MsgReplanFailed}))

\* the budget is exhausted by direct and by escalated verdicts
C2_Witness ==
    /\ ret = MsgReplanExhausted
    /\ self_replan_count = MAX_REPLANS + 1
    /\ verdict = "FAILURE_REPLAN"
    /\ Len(self_history) >= 1

\* ------------------------------------------------------------------------
\* C3
\* ------------------------------------------------------------------------
\* C3 as stated: when MAX_RETRIES + 1 FAILURE_RETRY verdicts in a row
\* escalate, the step has not been executed a (MAX_RETRIES + 1)-th time and
\* the Planner is called with the failure of that step
C3_Original ==
    Escalated =>
        /\ retry_count = MAX_RETRIES + 1
        /\ executions[step_index + 1] < MAX_RETRIES + 1
        /\ planner_args.failure_info = FailureInfo(current_step, result)

\* C3 amended: the verdict is escalated on the (MAX_RETRIES + 1)-th
\* FAILURE_RETRY in a row, each of these verdicts judges an execution of its
\* own, so the step has been executed exactly MAX_RETRIES + 1 times and is
\* not executed again; the Planner is then called with the failure of that
\* step and its latest result unless the replan budget is exhausted, in
\* which case run() returns
C3_Escalation ==
    Escalated =>
        /\ retry_count = MAX_RETRIES + 1
        /\ executions[step_index + 1] = MAX_RETRIES + 1
        /\ evaluations[step_index + 1] = MAX_RETRIES + 1
        /\ IF self_replan_count <= MAX_REPLANS
           THEN /\ planner_args.failure_info = FailureInfo(current_step, result)
                /\ planner_args.history = HistoryStr(self_history)
                /\ pc = "replanning" => current_step = plan[step_index + 1]
           ELSE pc = "done" /\ ret = MsgReplanExhausted

\* step 2 of a plan is escalated and the Planner is called
C3_Witness ==
    /\ Escalated
    /\ pc = "replanning"
    /\ step_index = 1
    /\ planner_args.failure_info = FailureInfo(plan[2], result)

\* ------------------------------------------------------------------------
\* C4
\* ------------------------------------------------------------------------
\* C4: in a run the Planner has been called once plus once per replan
\* performed, at most 1 + MAX_REPLANS times; it is called only by the start
\* of run() and by a FAILURE_REPLAN transition within the budget; the
\* transition that exhausts the budget returns DONE_FAILURE after
\* MAX_REPLANS replans without a Planner call
C4_PlannerCalls ==
    /\ [](pc # "idle" =>
            /\ planner_calls = 1 + replans_done
            /\ replans_done = MinNat(self_replan_count, MAX_REPLANS)
            /\ planner_calls <= 1 + MAX_REPLANS
            /\ (ret = MsgReplanExhausted =>
                  /\ pc = "done" /\ outcome = "DONE_FAILURE"
                  /\ replans_done = MAX_REPLANS
                  /\ planner_calls = 1 + MAX_REPLANS))
    /\ [][/\ planner_calls' # planner_calls =>
               \/ pc \in {"idle", "done"} /\ pc' = "planning" /\ planner_calls' = 1
               \/ ReplanStep /\ pc' = "replanning" /\ planner_calls' = planner_calls + 1
          /\ ret' = MsgReplanExhausted => planner_calls' = planner_calls]_vars

\* every first step is classified FAILURE_REPLAN until the budget is gone
C4_Witness ==
    /\ ret = MsgReplanExhausted
    /\ self_history = <<>>
    /\ step_index = 0
    /\ verdict = "FAILURE_REPLAN"
    /\ executions[1] = 1
    /\ planner_calls = 1 + MAX_REPLANS

\* ------------------------------------------------------------------------
\* C5
\* ------------------------------------------------------------------------
\* C5: a FAILURE_RETRY verdict that is not escalated leaves the retry counter
\* within MAX_RETRIES and the step is executed again; the verdict is
\* escalated exactly when the counter exceeds MAX_RETRIES; no position of the
\* active plan is executed more than MAX_RETRIES + 1 times
C5_RetryBound ==
    /\ [](/\ retry_count <= MAX_RETRIES + 1
          /\ (retry_count > MAX_RETRIES => Escalated)
          /\ (pc \in {"executing", "evaluating"} =>
                /\ retry_count <= MAX_RETRIES
                /\ executions[step_index + 1] = retry_count + 1)
          /\ \A i \in 1..MaxPlanLen : executions[i] <= MAX_RETRIES + 1)
    /\ [][VerdictStep /\ verdict' = "FAILURE_RETRY" =>
            /\ retry_count' = retry_count + 1
            /\ (EscalatedStep <=> retry_count' > MAX_RETRIES)
            /\ (~EscalatedStep =>
                  /\ retry_count' <= MAX_RETRIES
                  /\ pc' = "executing"
                  /\ step_index' = step_index /\ plan' = plan
                  /\ executions' = [executions EXCEPT ![step_index + 1] = @ + 1])]_vars

\* the last retry the bound allows
C5_Witness ==
    /\ pc = "executing"
    /\ verdict = "FAILURE_RETRY"
    /\ retry_count = MAX_RETRIES
    /\ executions[step_index + 1] = MAX_RETRIES + 1

\* ------------------------------------------------------------------------
\* C6
\* ------------------------------------------------------------------------
IsPrefix(a, b) == Len(a) <= Len(b) /\ SubSeq(b, 1, Len(a)) = a

\* C6: history has one entry per SUCCESS verdict of the run; within a run a
\* step of the program keeps every entry in place; a SUCCESS verdict appends
\* the step at the cursor with its result, and no other step of the program
\* (a failure verdict, a replan) appends anything
C6_HistoryAppendOnly ==
    /\ [](Len(self_history) = success_verdicts)
    /\ [][Running =>
            /\ IsPrefix(self_history, self_history')
            /\ IF VerdictStep /\ verdict' = "SUCCESS"
               THEN self_history' = Append(self_history,
                                           [step |-> current_step, result |-> result])
               ELSE self_history' = self_history]_vars

\* entries of two plans, with different results, after a replan
C6_Witness ==
    /\ pc = "replanning"
    /\ self_replan_count >= 2
    /\ Len(self_history) >= 2
    /\ self_history[1].step = self_history[2].step
    /\ self_history[1].result # self_history[2].result

\* ------------------------------------------------------------------------
\* C7
\* ------------------------------------------------------------------------
\* C7: while a plan is active the cursor is within it, and below its length
\* as long as run() has not returned; the cursor moves by +1 exactly on a
\* SUCCESS verdict, under an unchanged plan; it goes back only to 0 and only
\* when a replan installs a plan; run() is in DONE_SUCCESS exactly when it
\* has returned with the cursor at the length of the active plan
C7_StepIndex ==
    /\ [](/\ step_index >= 0
          /\ (plan # <<>> => step_index <= Len(plan))
          /\ (InLoop => plan # <<>> /\ step_index < Len(plan))
          /\ (outcome = "DONE_SUCCESS" <=>
                pc = "done" /\ plan # <<>> /\ step_index = Len(plan)))
    /\ [][Running =>
            /\ (step_index' # step_index =>
                  \/ /\ VerdictStep /\ verdict' = "SUCCESS"
                     /\ step_index' = step_index + 1 /\ plan' = plan
                  \/ /\ pc = "replanning" /\ pc' # "replanning"
                     /\ step_index' = 0 /\ plan' # <<>>)
            /\ (VerdictStep /\ verdict' = "SUCCESS" => step_index' = step_index + 1)
            /\ (pc = "replanning" /\ plan' # <<>> => step_index' = 0)]_vars

\* a replan put the cursor back to the first step of a new plan
C7_Witness ==
    /\ pc = "executing"
    /\ step_index = 0
    /\ self_replan_count >= 1
    /\ Len(self_history) >= 1
    /\ self_history[Len(self_history)].step # plan[1]

\* ------------------------------------------------------------------------
\* C8
\* ------------------------------------------------------------------------
\* C8: at DONE_SUCCESS history is not empty, its last entries are the steps
\* of the active plan in order, and run() returns the result of the last
\* entry, the latest result of the last step of the plan, never the
\* nothing-completed text
C8_FinalAnswer ==
    outcome = "DONE_SUCCESS" =>
        /\ self_history # <<>>
        /\ Len(self_history) >= Len(plan)
        /\ \A i \in 1..Len(plan) :
              self_history[Len(self_history) - Len(plan) + i].step = plan[i]
        /\ ret = self_history[Len(self_history)].result
        /\ ret = result
        /\ ret # MsgNothingCompleted

\* success after a replan, the first entry of history has another result
C8_Witness ==
    /\ outcome = "DONE_SUCCESS"
    /\ Len(self_history) > Len(plan)
    /\ Len(plan) = MaxPlanLen
    /\ self_history[1].result # ret

\* ------------------------------------------------------------------------
\* C9
\* ------------------------------------------------------------------------
\* C9: an empty plan is never executed: run() returns DONE_FAILURE when it
\* arrives, with the initial-plan text before any call of the Step Executor
\* or the Evaluator, with the replanning text after a replan, and the
\* returning step makes no execution, evaluation or Planner call
C9_EmptyPlan ==
    /\ [](/\ (plan = <<>> => pc \in {"idle", "planning", "done"})
          /\ (pc = "done" /\ plan = <<>> =>
                outcome = "DONE_FAILURE" /\ ret \in {MsgNoInitialPlan, MsgReplanFailed})
          /\ (ret = MsgNoInitialPlan =>
                /\ pc = "done" /\ plan = <<>>
                /\ planner_calls = 1 /\ self_replan_count = 0
                /\ executions = NoCalls /\ evaluations = NoCalls
                /\ current_step = NoStep /\ verdict = "unset"
                /\ self_history = <<>>)
          /\ (ret = MsgReplanFailed =>
                /\ pc = "done" /\ plan = <<>>
                /\ replans_done >= 1
                /\ evaluation = "FAILURE_REPLAN"))
    /\ [][/\ (pc = "planning" /\ pc' # "planning" /\ plan' = <<>> =>
                pc' = "done" /\ ret' = MsgNoInitialPlan)
          /\ (pc = "replanning" /\ pc' # "replanning" /\ plan' = <<>> =>
                /\ pc' = "done" /\ ret' = MsgReplanFailed
                /\ executions' = executions /\ evaluations' = evaluations
                /\ planner_calls' = planner_calls)]_vars

\* a replan after completed work comes back empty
C9_Witness ==
    /\ ret = MsgReplanFailed
    /\ Len(self_history) >= 1
    /\ self_replan_count = 1

\* ------------------------------------------------------------------------
\* C10
\* ------------------------------------------------------------------------
\* C10: a run over a plan of n >= 1 steps in which every verdict was SUCCESS
\* ends in DONE_SUCCESS with the result of step n, history holds the n steps
\* in plan order, the replan counter is 0, the Planner was called once, and
\* every step was executed and evaluated once
C10_HappyPath ==
    /\ (all_success => self_replan_count = 0 /\ planner_calls <= 1)
    /\ (pc = "done" /\ all_success /\ plan # <<>> =>
          /\ outcome = "DONE_SUCCESS"
          /\ Len(self_history) = Len(plan)
          /\ \A i \in 1..Len(plan) :
                /\ self_history[i].step = plan[i]
                /\ executions[i] = 1
                /\ evaluations[i] = 1
          /\ ret = self_history[Len(plan)].result
          /\ self_replan_count = 0
          /\ planner_calls = 1)

\* the longest plan, all SUCCESS, with different results
C10_Witness ==
    /\ pc = "done"
    /\ all_success
    /\ Len(plan) = MaxPlanLen
    /\ self_history[1].result # ret

\* ------------------------------------------------------------------------
\* C11
\* ------------------------------------------------------------------------
\* C11: a step whose first k <= MAX_RETRIES verdicts are FAILURE_RETRY is
\* executed again after each of them, and when the next verdict is SUCCESS
\* the step has been executed exactly k + 1 times and is not executed again,
\* the retry counter is 0 after the verdict, neither the replan counter nor
\* the plan changes, the Planner is not called, and the run goes on with the
\* next step of the plan (or returns the final answer after the last one)
C11_RetryThenSuccess ==
    [][VerdictStep =>
        LET pos == step_index + 1
            k == evaluations[pos] - 1
        IN  /\ (verdict' = "FAILURE_RETRY" /\ k < MAX_RETRIES =>
                  /\ pc' = "executing"
                  /\ step_index' = step_index
                  /\ executions'[pos] = executions[pos] + 1)
            /\ (verdict' = "SUCCESS" =>
                  /\ k <= MAX_RETRIES
                  /\ retry_count = k
                  /\ executions[pos] = k + 1
                  /\ executions'[pos] = k + 1
                  /\ retry_count' = 0
                  /\ self_replan_count' = self_replan_count
                  /\ planner_calls' = planner_calls
                  /\ plan' = plan
                  /\ step_index' = pos
                  /\ IF pos < Len(plan)
                     THEN pc' = "executing" /\ current_step' = plan[pos + 1]
                     ELSE pc' = "done" /\ outcome' = "DONE_SUCCESS")]_vars

\* step 2 of the first plan got MAX_RETRIES FAILURE_RETRY verdicts and then
\* SUCCESS
C11_Witness ==
    /\ pc = "done"
    /\ outcome = "DONE_SUCCESS"
    /\ Len(plan) = 2
    /\ executions[1] = 1
    /\ executions[2] = MAX_RETRIES + 1
    /\ evaluations[2] = MAX_RETRIES + 1
    /\ retry_count = 0
    /\ self_replan_count = 0
    /\ planner_calls = 1

\* ------------------------------------------------------------------------
\* C17
\* ------------------------------------------------------------------------
\* C17: the retry counter counts the FAILURE_RETRY verdicts of the step at
\* the cursor only: while a step is executed or evaluated it is one less than
\* the executions of that position under the active plan, so it is 0 at the
\* first execution of every position of every plan; it is set to 0 by a
\* SUCCESS verdict and by the installation of a new plan after a
\* FAILURE_REPLAN transition, direct or escalated, and every position of
\* every plan can be retried MAX_RETRIES times
C17_RetryReset ==
    /\ [](pc \in {"executing", "evaluating"} =>
            /\ retry_count = executions[step_index + 1] - 1
            /\ (executions[step_index + 1] = 1 => retry_count = 0))
    /\ [][/\ (VerdictStep /\ verdict' = "SUCCESS" => retry_count' = 0)
          /\ (VerdictStep /\ verdict' = "FAILURE_RETRY"
                /\ executions[step_index + 1] <= MAX_RETRIES =>
                   pc' = "executing" /\ step_index' = step_index)
          /\ (pc = "replanning" /\ pc' = "executing" =>
                /\ retry_count' = 0
                /\ step_index' = 0
                /\ executions'[1] = 1)]_vars

\* the first step of a plan installed after an escalation is executed for
\* the first time
C17_Witness ==
    /\ pc = "executing"
    /\ verdict = "FAILURE_RETRY"
    /\ evaluation = "FAILURE_REPLAN"
    /\ self_replan_count >= 1
    /\ executions[1] = 1
    /\ retry_count = 0

\* ------------------------------------------------------------------------
\* C18
\* ------------------------------------------------------------------------
\* C18: a FAILURE_RETRY verdict that is not escalated hands the same step to
\* the Executor again and changes the retry counter only: plan, step_index,
\* history, replan counter and the Planner calls are unchanged; a SUCCESS
\* verdict leaves the plan, the replan counter and the Planner calls
\* unchanged; the plan changes only when a reply of the Planner arrives or a
\* new run starts
C18_Frame ==
    [][/\ (VerdictStep /\ verdict' = "FAILURE_RETRY" /\ ~EscalatedStep =>
             /\ retry_count' = retry_count + 1
             /\ pc' = "executing"
             /\ current_step' = current_step
             /\ current_step' = plan[step_index + 1]
             /\ plan' = plan
             /\ step_index' = step_index
             /\ self_history' = self_history
             /\ self_replan_count' = self_replan_count
             /\ result' = result
             /\ failure_info' = failure_info
             /\ planner_calls' = planner_calls
             /\ planner_args' = planner_args
             /\ UNCHANGED <<ret, outcome>>)
       /\ (VerdictStep /\ verdict' = "SUCCESS" =>
             /\ plan' = plan
             /\ self_replan_count' = self_replan_count
             /\ planner_calls' = planner_calls
             /\ planner_args' = planner_args)
       /\ (plan' # plan => pc \in {"idle", "done", "planning", "replanning"})
       /\ (plan' # plan /\ pc = "replanning" =>
             planner_calls = replans_done + 1 /\ replans_done >= 1)]_vars

\* a retry of step 2 of the second plan, with one completed step in history
C18_Witness ==
    /\ pc = "executing"
    /\ verdict = "FAILURE_RETRY"
    /\ evaluation = "FAILURE_RETRY"
    /\ retry_count = MAX_RETRIES
    /\ step_index = 1
    /\ Len(self_history) >= 1
    /\ self_replan_count = 1

\* ------------------------------------------------------------------------
\* C19
\* ------------------------------------------------------------------------
\* C19: the initial Planner call of a run gets the "none" marker for history
\* and for the failure description; every replan call gets the history of
\* that moment (one entry per SUCCESS verdict of the run, or the "none"
\* marker when there is none) and a failure description built at that
\* FAILURE_REPLAN transition from the step at the cursor and the result of
\* its latest execution, so no call gets the description of an earlier one
C19_PlannerInputs ==
    /\ [](pc = "planning" =>
            /\ planner_args.history = [none |-> TRUE, entries |-> <<>>]
            /\ planner_args.failure_info.none)
    /\ [](pc = "replanning" =>
            /\ Len(self_history) = success_verdicts
            /\ planner_args.history =
                 (IF self_history = <<>>
                  THEN [none |-> TRUE, entries |-> <<>>]
                  ELSE [none |-> FALSE, entries |-> self_history])
            /\ planner_args.failure_info =
                 [none |-> FALSE, step |-> plan[step_index + 1], result |-> result])
    /\ [][planner_calls' # planner_calls /\ pc' = "replanning" =>
            /\ ReplanStep
            /\ planner_calls' = planner_calls + 1
            /\ planner_args'.failure_info =
                 [none |-> FALSE, step |-> current_step, result |-> result]
            /\ failure_info' = planner_args'.failure_info]_vars

\* the second replan of a run: step 2 failed with a result after step 1 had
\* succeeded
C19_Witness ==
    /\ pc = "replanning"
    /\ self_replan_count = 2
    /\ planner_calls = 3
    /\ Len(self_history) = 1
    /\ step_index = 1
    /\ result = "r1"
    /\ failure_info = [none |-> FALSE, step |-> StrItem(StepText(2)), result |-> "r1"]

\* ------------------------------------------------------------------------
\* C12
\* ------------------------------------------------------------------------
\* C12: Evaluator.evaluate returns for every reply, and returns SUCCESS when
\* the upper-cased text of the reply contains SUCCESS (whatever else it
\* contains), FAILURE_RETRY when it contains FAILURE_RETRY and not SUCCESS,
\* and FAILURE_REPLAN for every other text and when the engine gave no reply
C12_Precedence ==
    call.fn = "evaluate" /\ call.pc = "returned" =>
        LET text == call.reply.text
            hasSuccess ==
                /\ call.reply.avail
                /\ \E i \in 1..Len(text) : WordHas(Upper(text[i]), "SUCCESS")
            hasRetry ==
                /\ call.reply.avail
                /\ \E i \in 1..Len(text) : WordHas(Upper(text[i]), "FAILURE_RETRY")
        IN  /\ call.out \in {"SUCCESS", "FAILURE_RETRY", "FAILURE_REPLAN"}
            /\ (hasSuccess => call.out = "SUCCESS")
            /\ (~hasSuccess /\ hasRetry => call.out = "FAILURE_RETRY")
            /\ (~hasSuccess /\ ~hasRetry => call.out = "FAILURE_REPLAN")

\* a reply that names FAILURE_RETRY first and then success in lower case
C12_Witness ==
    /\ call.fn = "evaluate"
    /\ call.pc = "returned"
    /\ call.reply = Some(<<"FAILURE_RETRY", "success">>)
    /\ call.out = "SUCCESS"

\* ------------------------------------------------------------------------
\* C13
\* ------------------------------------------------------------------------
\* C13 as stated: for every reply Planner.plan returns the empty list or a
\* non-empty list whose elements are all strings, and it returns the empty
\* list unless the reply holds a python block that is one list literal
C13_PlanOfStrings ==
    call.fn = "plan" /\ call.pc = "returned" =>
        /\ \A i \in 1..Len(call.out) : call.out[i].str
        /\ (~call.reply.avail => call.out = <<>>)
        /\ (Positions(call.reply.text, {"fence_py"}) = {} => call.out = <<>>)
        /\ (Positions(call.reply.text, {"list"}) = {} => call.out = <<>>)

\* ------------------------------------------------------------------------
\* C14
\* ------------------------------------------------------------------------
\* C14: once the engine is down, every call run() waits for returns without
\* an exception: the Planner returns the empty plan and run() returns the
\* failure text of that call, the Executor returns the empty string, the
\* Evaluator returns FAILURE_REPLAN; run() goes from there to a return with
\* DONE_FAILURE in at most three calls and never returns DONE_SUCCESS, and
\* whatever run() returns is one of its texts
C14_EngineDown ==
    /\ [](pc = "done" =>
            \/ outcome = "DONE_SUCCESS" /\ ret \in {MsgNothingCompleted} \cup ExecutorTexts
            \/ outcome = "DONE_FAILURE"
                 /\ ret \in {MsgNoInitialPlan, MsgReplanExhausted, MsgReplanFailed})
    /\ [](engine = "down" /\ pc = "done" => outcome = "DONE_FAILURE")
    /\ [](engine = "down" /\ pc \in {"planning", "executing", "evaluating", "replanning"} =>
            ENABLED (PlanInitial \/ ExecuteStep \/ Evaluate \/ Replan))
    /\ [][engine = "down" /\ pc' # pc =>
            /\ (pc = "planning" => pc' = "done" /\ ret' = MsgNoInitialPlan)
            /\ (pc = "executing" => pc' = "evaluating" /\ result' = "")
            /\ (pc = "evaluating" =>
                  /\ verdict' = "FAILURE_REPLAN"
                  /\ \/ pc' = "replanning"
                     \/ pc' = "done" /\ ret' = MsgReplanExhausted)
            /\ (pc = "replanning" => pc' = "done" /\ ret' = MsgReplanFailed)
            /\ (pc = "done" => pc' = "planning")]_vars

\* the engine went down after a step had succeeded: the next step got the
\* empty result and FAILURE_REPLAN, and the replan came back empty
C14_Witness ==
    /\ engine = "down"
    /\ pc = "done"
    /\ ret = MsgReplanFailed
    /\ Len(self_history) >= 1
    /\ result = ""
    /\ verdict = "FAILURE_REPLAN"

\* ------------------------------------------------------------------------
\* C15
\* ------------------------------------------------------------------------
\* C15: when run() is called again, whatever the earlier call left in
\* self.history and self.replan_count, the new call waits for its initial
\* plan in exactly the state in which the first call on a new instance waits
\* for it: empty history, replan counter 0, no plan, no step, one Planner
\* call with the "none" markers; from that state on the same replies give
\* the same run
C15_FreshRun ==
    /\ [](pc = "planning" =>
            /\ self_history = <<>>
            /\ self_replan_count = 0
            /\ plan = <<>>
            /\ step_index = 0
            /\ retry_count = 0
            /\ current_step = NoStep
            /\ result = ""
            /\ evaluation = "unset"
            /\ failure_info = NoFailure
            /\ ret = "unset"
            /\ outcome = "unset"
            /\ verdict = "unset"
            /\ planner_args = [history |-> [none |-> TRUE, entries |-> <<>>],
                               failure_info |-> NoFailure]
            /\ planner_calls = 1
            /\ replans_done = 0
            /\ success_verdicts = 0
            /\ executions = NoCalls
            /\ evaluations = NoCalls
            /\ all_success)
    /\ [][pc = "done" /\ pc' # pc =>
            /\ pc' = "planning"
            /\ rerun'
            /\ self_history' = <<>>
            /\ self_replan_count' = 0]_vars

\* a later call of run() waits for its initial plan
C15_Witness ==
    /\ rerun
    /\ pc = "planning"
    /\ self_history = <<>>
    /\ self_replan_count = 0

\* ------------------------------------------------------------------------
\* C20
\* ------------------------------------------------------------------------
\* C20 as stated: while a call of run() waits for the engine, no step of
\* another call on the same instance changes self.history or
\* self.replan_count, so a call returns the budget-exhausted failure only
\* after MAX_REPLANS replans of its own and holds one history entry per
\* SUCCESS verdict of its own
C20_NoSharedRunState ==
    /\ [][/\ other' = other
          /\ other.pc \in {"planning", "executing", "evaluating", "replanning"}
          => /\ self_history' = self_history
             /\ self_replan_count' = self_replan_count]_vars
    /\ [](pc = "done" /\ ret = MsgReplanExhausted => replans_done = MAX_REPLANS)
    /\ [](pc = "replanning" => Len(self_history) = success_verdicts)

====
